---- MODULE Spec2Model ----
(***************************************************************************)
(* langdag Python SDK: the SSE stream decoder (_parse_sse_stream), the     *)
(* error taxonomy (_handle_response, exceptions.py) and the request        *)
(* executor (_request, _stream_request) of LangDAGClient.                  *)
(*                                                                         *)
(* A Python str is modelled as a sequence of tokens (each token a run of   *)
(* characters); the string operations of the code (rstrip, startswith,     *)
(* slicing, strip, join, json.loads) are operators on such sequences.      *)
(***************************************************************************)
EXTENDS Naturals, Sequences, FiniteSets, TLC

VARIABLES
    lines_read,   \* the lines the decoder has taken from its line iterator
    event_type,   \* _parse_sse_stream: event_type (None or a str)
    data_lines,   \* _parse_sse_stream: data_lines
    events,       \* the SSEEvents handed to the consumer so far, in order
    gen,          \* the generator's position: created, running, yielded, done, raised
    _client,      \* LangDAGClient._client: 0 for None, else a handle id
    handles,      \* every httpx.Client created so far: "open" or "closed"
    response,     \* the httpx.Response of the streaming call
    exchange,     \* the last _request: whether it connected, the status and body received
    result,       \* what the last _request gave its caller
    stream_result, \* what the _stream_request generator raised, if it did
    peer_client,  \* _client of a second LangDAGClient instance
    tree,         \* print_tree_structure: the flat list of Nodes
    children,     \* print_tree_structure: children, parent_id -> list of ids
    printed,      \* the ids print_node has printed, in order
    frames,       \* the call stack of print_node: <<node_id, next child>> frames
    tree_pc,      \* print_tree_structure's position: none, fetched, built, walking, returned
    a_event_type, \* _parse_sse_stream_async: event_type
    a_data_lines, \* _parse_sse_stream_async: data_lines
    a_events,     \* the SSEEvents the async generator handed over
    a_gen,        \* the async generator's position
    a_result,     \* what AsyncLangDAGClient._handle_response gave
    o_lines_read, \* a second call of _parse_sse_stream: the lines it took
    o_event_type, \* ... its event_type
    o_data_lines, \* ... its data_lines
    o_events,     \* ... the SSEEvents it handed over
    o_gen,        \* ... its position
    threads       \* the threads calling _get_client: where each one is in it

decoderVars == <<lines_read, event_type, data_lines, events, gen>>
clientVars == <<_client, handles, response, exchange, result, stream_result>>
treeVars == <<tree, children, printed, frames, tree_pc>>
asyncVars == <<a_event_type, a_data_lines, a_events, a_gen, a_result>>
otherVars == <<o_lines_read, o_event_type, o_data_lines, o_events, o_gen>>
\* what the calls of one blocking LangDAGClient leave alone
restVars == <<peer_client, tree, children, printed, frames, tree_pc,
              a_event_type, a_data_lines, a_events, a_gen, a_result,
              o_lines_read, o_event_type, o_data_lines, o_events, o_gen,
              threads>>
vars == <<lines_read, event_type, data_lines, events, gen,
          _client, handles, response, exchange, result, stream_result,
          peer_client, tree, children, printed, frames, tree_pc,
          a_event_type, a_data_lines, a_events, a_gen, a_result,
          o_lines_read, o_event_type, o_data_lines, o_events, o_gen,
          threads>>

-----------------------------------------------------------------------------
(* Bounds of the exploration.                                              *)

\* lines taken from one line iterator, over the whole line alphabet
MaxLines == 3
\* lines taken from one line iterator when all of them are core lines
MaxCoreLines == 6
\* lines taken from the body of one streamed response
MaxStreamLines == 3
\* httpx.Client objects one LangDAGClient creates
MaxHandles == 2

\* lines taken from the body of one long streamed response
MaxLongStreamLines == 6

\* Nodes in the flat list get_tree returns
MaxNodes == 3

\* lines taken from a line iterator that carries multi-line data
MaxDataLines == 4

\* lines each of two interleaved decoders takes
MaxSessionLines == 3

\* lines taken from a line iterator that carries comment and field lines
MaxCommentedLines == 4

\* threads that call one LangDAGClient at the same time
MaxThreads == 2

-----------------------------------------------------------------------------
(* Python values.                                                          *)

\* Optional[str]
None == [some |-> FALSE, v |-> <<>>]
Some(s) == [some |-> TRUE, v |-> s]

\* str.strip() with no argument strips whitespace
Whitespace == {" ", "\t", "\r", "\n"}

RECURSIVE rstrip(_, _)
\* str.rstrip(chars)
rstrip(s, chars) ==
    IF s # <<>> /\ s[Len(s)] \in chars
    THEN rstrip(SubSeq(s, 1, Len(s) - 1), chars)
    ELSE s

RECURSIVE lstrip(_, _)
lstrip(s, chars) ==
    IF s # <<>> /\ s[1] \in chars THEN lstrip(Tail(s), chars) ELSE s

\* str.strip()
strip(s) == lstrip(rstrip(s, Whitespace), Whitespace)

\* str.startswith(prefix)
startswith(s, prefix) ==
    Len(s) >= Len(prefix) /\ SubSeq(s, 1, Len(prefix)) = prefix

\* s[n:], n counted in tokens of the prefix sliced off
SliceFrom(s, prefix) == SubSeq(s, Len(prefix) + 1, Len(s))

RECURSIVE join(_, _)
\* sep.join(parts)
join(sep, parts) ==
    IF parts = <<>> THEN <<>>
    ELSE IF Len(parts) = 1 THEN parts[1]
    ELSE parts[1] \o sep \o join(sep, Tail(parts))

-----------------------------------------------------------------------------
(* json.loads on the JSON texts of the model.  A parsed value is           *)
(* [tag, kv, lit]: tag the Python type, kv the items of a dict, lit the    *)
(* text of a scalar.                                                       *)

JsonWhitespace == {" ", "\t", "\r", "\n"}

\* the object members of the model: token -> <<key, value>>
JsonMembers ==
    [t \in {"\"content\":\"hi\"", "\"node_id\":\"n-1\"", "\"error\":\"denied\""} |->
        CASE t = "\"content\":\"hi\"" -> <<"content", <<"hi">>>>
          [] t = "\"node_id\":\"n-1\"" -> <<"node_id", <<"n-1">>>>
          [] t = "\"error\":\"denied\"" -> <<"error", <<"denied">>>>]

\* the scalar and array texts of the model: token -> Python type
JsonLiterals ==
    [t \in {"5", "null", "[1]"} |->
        CASE t = "5" -> "int"
          [] t = "null" -> "NoneType"
          [] t = "[1]" -> "list"]

Dict(items) == [tag |-> "dict", kv |-> items, lit |-> <<>>]

\* json.loads(s): ok = FALSE stands for json.JSONDecodeError
json_loads(s) ==
    LET t == SelectSeq(s, LAMBDA c : c \notin JsonWhitespace)
    IN  IF t = <<"{", "}">>
        THEN [ok |-> TRUE, val |-> Dict({})]
        ELSE IF Len(t) = 3 /\ t[1] = "{" /\ t[3] = "}" /\ t[2] \in DOMAIN JsonMembers
        THEN [ok |-> TRUE, val |-> Dict({JsonMembers[t[2]]})]
        ELSE IF Len(t) = 1 /\ t[1] \in DOMAIN JsonLiterals
        THEN [ok |-> TRUE, val |-> [tag |-> JsonLiterals[t[1]], kv |-> {}, lit |-> t]]
        ELSE [ok |-> FALSE, val |-> Dict({})]

\* dict.get(key): found = FALSE stands for the None it returns;
\* on a value that is no dict the attribute lookup raises AttributeError
dict_get(d, key) ==
    IF d.tag # "dict"
    THEN [raises |-> TRUE, found |-> FALSE, v |-> <<>>]
    ELSE IF \E p \in d.kv : p[1] = key
    THEN [raises |-> FALSE, found |-> TRUE, v |-> (CHOOSE p \in d.kv : p[1] = key)[2]]
    ELSE [raises |-> FALSE, found |-> FALSE, v |-> <<>>]

-----------------------------------------------------------------------------
(* models.py: SSEEventType and SSEEvent.                                   *)

\* the values of the enum SSEEventType
SSEEventType == {<<"start">>, <<"delta">>, <<"done">>, <<"error">>}

SSEEvent(ev, d) == [event |-> ev, data |-> d]

\* SSEEvent.content, .node_id, .dag_id
content(e) == dict_get(e.data, "content")
node_id(e) == dict_get(e.data, "node_id")
dag_id(e) == dict_get(e.data, "dag_id")

-----------------------------------------------------------------------------
(* The lines a line iterator can deliver.                                  *)

EVENT == <<"event:">>
DATA == <<"data:">>

CoreLines ==
    { <<>>,
      <<"event:", " ", "start">>,
      <<"event:", " ", "error">>,
      <<"event:", " ", "ping">>,
      <<"data:", " ", "{", "\"content\":\"hi\"", "}">> }

Lines ==
    CoreLines \cup
    { <<"\r", "\n">>,
      <<"data:", " ", "oops">>,
      <<"event:", "delta", " ">>,
      <<"event:", " ", "done">>,
      <<"event:">>,
      <<"data:", " ", "5">>,
      <<"data:">>,
      <<":", " ", "keepalive">>,
      <<" ">> }

\* the lines of a streamed response body
StreamLines ==
    { <<>>,
      <<"event:", " ", "start">>,
      <<"event:", " ", "error">>,
      <<"data:", " ", "{", "\"content\":\"hi\"", "}">> }

\* the lines of events whose data spans several data: lines
DataBlockLines ==
    { <<>>,
      <<"event:", " ", "error">>,
      <<"data:", " ", "line one">>,
      <<"data:", " ", "line two", " ">>,
      <<"data:", " ", "{">>,
      <<"data:", " ", "}">> }

\* the lines of events with comment lines, id: fields and blank-looking lines
CommentedLines ==
    { <<>>,
      <<"event:", " ", "start">>,
      <<"data:", " ", "{", "\"content\":\"hi\"", "}">>,
      <<":", " ", "keepalive">>,
      <<"id:", " ", "7">>,
      <<" ">> }

\* the sequences of lines the exploration follows
WithinBudget(ls) ==
    \/ Len(ls) <= MaxLines
    \/ Len(ls) <= MaxCoreLines /\ \A i \in 1..Len(ls) : ls[i] \in CoreLines

-----------------------------------------------------------------------------
(* client.py: _parse_sse_stream, one iteration of `for line in lines`.     *)

\* mutant: the check of data_lines is lost
HasPendingEvent_TypeOnly(et, dl) == et.some

\* the condition under which the empty line builds an event
HasPendingEvent(et, dl) == et.some /\ dl # <<>>

\* mutant: the fallback payload loses the raw text
ParseData_EmptyFallback(data_str) ==
    IF json_loads(data_str).ok
    THEN json_loads(data_str).val
    ELSE Dict({})

\* the payload: json.loads(data_str), or {"message": data_str}
ParseData(data_str) ==
    IF json_loads(data_str).ok
    THEN json_loads(data_str).val
    ELSE Dict({<<"message", data_str>>})

\* mutant: an event of the error kind is withheld from the consumer
Flush_ErrorWithheld(et, dl) ==
    IF HasPendingEvent(et, dl)
    THEN LET data_str == join(<<"\n">>, dl)
             data == ParseData(data_str)
         IN  IF et.v \in SSEEventType /\ et.v # <<"error">>
             THEN <<SSEEvent(et.v[1], data)>>
             ELSE <<>>
    ELSE <<>>

\* mutant: an unknown event type is passed on as an error event
Flush_UnknownAsError(et, dl) ==
    IF HasPendingEvent(et, dl)
    THEN LET data_str == join(<<"\n">>, dl)
             data == ParseData(data_str)
         IN  IF et.v \in SSEEventType
             THEN <<SSEEvent(et.v[1], data)>>
             ELSE <<SSEEvent("error", data)>>
    ELSE <<>>

\* what the empty line yields: <<>> or one SSEEvent
Flush(et, dl) ==
    IF HasPendingEvent(et, dl)
    THEN LET data_str == join(<<"\n">>, dl)
             data == ParseData(data_str)
         IN  IF et.v \in SSEEventType
             THEN <<SSEEvent(et.v[1], data)>>
             ELSE <<>>
    ELSE <<>>

\* mutant: a line of no known shape clears the pending type
NextEventType_OtherLineClears(line, et) ==
    IF startswith(line, EVENT) THEN Some(strip(SliceFrom(line, EVENT)))
    ELSE IF startswith(line, DATA) THEN et
    ELSE IF line = <<>> THEN None
    ELSE None

\* mutant: an event: line does not replace a type that is already pending
NextEventType_FirstWins(line, et) ==
    IF startswith(line, EVENT)
    THEN (IF et.some THEN et ELSE Some(strip(SliceFrom(line, EVENT))))
    ELSE IF startswith(line, DATA) THEN et
    ELSE IF line = <<>> THEN None
    ELSE et

\* mutant: the empty line leaves the pending type as it is
NextEventType_KeptOnBlank(line, et) ==
    IF startswith(line, EVENT) THEN Some(strip(SliceFrom(line, EVENT)))
    ELSE IF startswith(line, DATA) THEN et
    ELSE IF line = <<>> THEN et
    ELSE et

\* event_type after the line
NextEventType(line, et) ==
    IF startswith(line, EVENT) THEN Some(strip(SliceFrom(line, EVENT)))
    ELSE IF startswith(line, DATA) THEN et
    ELSE IF line = <<>> THEN None
    ELSE et

\* mutant: a data fragment is put before the fragments already pending
NextDataLines_Prepend(line, dl) ==
    IF startswith(line, EVENT) THEN dl
    ELSE IF startswith(line, DATA) THEN <<strip(SliceFrom(line, DATA))>> \o dl
    ELSE IF line = <<>> THEN <<>>
    ELSE dl

\* data_lines after the line
NextDataLines(line, dl) ==
    IF startswith(line, EVENT) THEN dl
    ELSE IF startswith(line, DATA) THEN Append(dl, strip(SliceFrom(line, DATA)))
    ELSE IF line = <<>> THEN <<>>
    ELSE dl

\* the events the line yields
Yielded(line, et, dl) ==
    IF startswith(line, EVENT) THEN <<>>
    ELSE IF startswith(line, DATA) THEN <<>>
    ELSE IF line = <<>> THEN Flush(et, dl)
    ELSE <<>>

\* mutant: a new event is put before the events already handed over
DecodeLine_Prepend(raw) ==
    LET line == rstrip(raw, {"\r", "\n"})
        out == Yielded(line, event_type, data_lines)
    IN  /\ lines_read' = Append(lines_read, raw)
        /\ event_type' = NextEventType(line, event_type)
        /\ data_lines' = NextDataLines(line, data_lines)
        /\ events' = out \o events
        /\ gen' = IF out # <<>> THEN "yielded" ELSE "running"

\* mutant: the loop goes on to the next line without suspending at the yield
DecodeLine_ReadsAhead(raw) ==
    LET line == rstrip(raw, {"\r", "\n"})
        out == Yielded(line, event_type, data_lines)
    IN  /\ lines_read' = Append(lines_read, raw)
        /\ event_type' = NextEventType(line, event_type)
        /\ data_lines' = NextDataLines(line, data_lines)
        /\ events' = events \o out
        /\ gen' = "running"

\* the loop body on the raw line `raw`
DecodeLine(raw) ==
    LET line == rstrip(raw, {"\r", "\n"})
        out == Yielded(line, event_type, data_lines)
    IN  /\ lines_read' = Append(lines_read, raw)
        /\ event_type' = NextEventType(line, event_type)
        /\ data_lines' = NextDataLines(line, data_lines)
        /\ events' = events \o out
        /\ gen' = IF out # <<>> THEN "yielded" ELSE "running"

\* the line iterator is exhausted: the generator returns
DecodeEnd ==
    /\ gen' = "done"
    /\ UNCHANGED <<lines_read, event_type, data_lines, events>>

\* the consumer asks for the next event: next(generator)
Resume ==
    /\ gen' = "running"
    /\ UNCHANGED <<lines_read, event_type, data_lines, events>>

-----------------------------------------------------------------------------
(* _parse_sse_stream called on a line iterator, as the tests call it.      *)

\* mutant: next() on a generator that has returned runs it again
Pull_Restarts ==
    /\ gen \in {"created", "yielded", "done"}
    /\ Resume
    /\ UNCHANGED clientVars
    /\ UNCHANGED restVars

Pull ==
    /\ gen \in {"created", "yielded"}
    /\ Resume
    /\ UNCHANGED clientVars
    /\ UNCHANGED restVars

ReadLine ==
    /\ gen = "running"
    /\ \E raw \in Lines :
        /\ WithinBudget(Append(lines_read, raw))
        /\ DecodeLine(raw)
    /\ UNCHANGED clientVars
    /\ UNCHANGED restVars

EndOfLines ==
    /\ gen = "running"
    /\ DecodeEnd
    /\ UNCHANGED clientVars
    /\ UNCHANGED restVars

\* the loop takes one line of a multi-line event
ReadDataLine ==
    /\ gen = "running"
    /\ \E raw \in DataBlockLines :
        /\ Len(lines_read) < MaxDataLines
        /\ DecodeLine(raw)
    /\ UNCHANGED clientVars
    /\ UNCHANGED restVars

\* the loop takes one line of a stream body, in the first of two calls
SessionReadLine ==
    /\ gen = "running"
    /\ \E raw \in StreamLines :
        /\ Len(lines_read) < MaxSessionLines
        /\ DecodeLine(raw)
    /\ UNCHANGED clientVars
    /\ UNCHANGED restVars

\* the loop takes one line of an event stream with comment and field lines
ReadCommentedLine ==
    /\ gen = "running"
    /\ \E raw \in CommentedLines :
        /\ Len(lines_read) < MaxCommentedLines
        /\ DecodeLine(raw)
    /\ UNCHANGED clientVars
    /\ UNCHANGED restVars

\* mutant: the second call keeps its pending type and data where the first
\* call keeps them
OtherDecodeLine_SharedPending(raw) ==
    LET line == rstrip(raw, {"\r", "\n"})
        out == Yielded(line, event_type, data_lines)
    IN  /\ o_lines_read' = Append(o_lines_read, raw)
        /\ event_type' = NextEventType(line, event_type)
        /\ data_lines' = NextDataLines(line, data_lines)
        /\ o_events' = o_events \o out
        /\ o_gen' = IF out # <<>> THEN "yielded" ELSE "running"
        /\ UNCHANGED <<o_event_type, o_data_lines>>
        /\ UNCHANGED <<lines_read, events, gen>>

\* the loop body in a second call of _parse_sse_stream: its own locals
OtherDecodeLine(raw) ==
    LET line == rstrip(raw, {"\r", "\n"})
        out == Yielded(line, o_event_type, o_data_lines)
    IN  /\ o_lines_read' = Append(o_lines_read, raw)
        /\ o_event_type' = NextEventType(line, o_event_type)
        /\ o_data_lines' = NextDataLines(line, o_data_lines)
        /\ o_events' = o_events \o out
        /\ o_gen' = IF out # <<>> THEN "yielded" ELSE "running"
        /\ UNCHANGED decoderVars

\* the consumer of the second call asks for its next event
OtherPull ==
    /\ o_gen \in {"created", "yielded"}
    /\ o_gen' = "running"
    /\ UNCHANGED <<o_lines_read, o_event_type, o_data_lines, o_events>>
    /\ UNCHANGED decoderVars
    /\ UNCHANGED clientVars
    /\ UNCHANGED <<peer_client, tree, children, printed, frames, tree_pc>>
    /\ UNCHANGED asyncVars
    /\ UNCHANGED threads

\* the second call takes one line of its own stream body
OtherReadLine ==
    /\ o_gen = "running"
    /\ \E raw \in StreamLines :
        /\ Len(o_lines_read) < MaxSessionLines
        /\ OtherDecodeLine(raw)
    /\ UNCHANGED clientVars
    /\ UNCHANGED <<peer_client, tree, children, printed, frames, tree_pc>>
    /\ UNCHANGED asyncVars
    /\ UNCHANGED threads

\* the line source of the second call is exhausted
OtherEndOfLines ==
    /\ o_gen = "running"
    /\ o_gen' = "done"
    /\ UNCHANGED <<o_lines_read, o_event_type, o_data_lines, o_events>>
    /\ UNCHANGED decoderVars
    /\ UNCHANGED clientVars
    /\ UNCHANGED <<peer_client, tree, children, printed, frames, tree_pc>>
    /\ UNCHANGED asyncVars
    /\ UNCHANGED threads

-----------------------------------------------------------------------------
(* exceptions.py: the exception classes.                                   *)

\* class -> its base class
Bases ==
    [c \in {"LangDAGError", "APIError", "AuthenticationError", "NotFoundError",
            "BadRequestError", "ConnectionError", "StreamError"} |->
        CASE c = "LangDAGError" -> "Exception"
          [] c = "APIError" -> "LangDAGError"
          [] c = "AuthenticationError" -> "APIError"
          [] c = "NotFoundError" -> "APIError"
          [] c = "BadRequestError" -> "APIError"
          [] c = "ConnectionError" -> "LangDAGError"
          [] c = "StreamError" -> "LangDAGError"]

RECURSIVE issubclass(_, _)
issubclass(c, base) ==
    \/ c = base
    \/ c \in DOMAIN Bases /\ issubclass(Bases[c], base)

\* Optional[dict]
NoBody == [some |-> FALSE, v |-> Dict({})]

\* the outcome of a call: kind is none, returned or raised; a status_code of 0
\* stands for None
NoResult ==
    [kind |-> "none", exc |-> "", message |-> <<>>, status_code |-> 0,
     response_body |-> NoBody, value |-> Dict({}), cause |-> ""]

Returned(v) ==
    [kind |-> "returned", exc |-> "", message |-> <<>>, status_code |-> 0,
     response_body |-> NoBody, value |-> v, cause |-> ""]

\* an exception without the attributes of APIError
Raised(cls, message) ==
    [kind |-> "raised", exc |-> cls, message |-> message, status_code |-> 0,
     response_body |-> NoBody, value |-> Dict({}), cause |-> ""]

\* mutant: raise ConnectionError(message) without `from e`
RaisedFrom_NoCause(cls, message, cause) ==
    [kind |-> "raised", exc |-> cls, message |-> message, status_code |-> 0,
     response_body |-> NoBody, value |-> Dict({}), cause |-> ""]

\* raise ConnectionError(message) from e: __cause__ is the exception `cause`
RaisedFrom(cls, message, cause) ==
    [kind |-> "raised", exc |-> cls, message |-> message, status_code |-> 0,
     response_body |-> NoBody, value |-> Dict({}), cause |-> cause]

\* APIError.__init__(message, status_code, response_body), raised
APIErrorInit(cls, message, status_code, response_body) ==
    [kind |-> "raised", exc |-> cls, message |-> message, status_code |-> status_code,
     response_body |-> response_body, value |-> Dict({}), cause |-> ""]

-----------------------------------------------------------------------------
(* client.py: LangDAGClient._handle_response.                              *)

\* the try/except around body = response.json(); body.get("error", default)
ErrorMessage(body, default) ==
    LET parsed == json_loads(body)
        got == dict_get(parsed.val, "error")
    IN  IF ~parsed.ok THEN default
        ELSE IF got.raises THEN default
        ELSE IF got.found THEN got.v
        ELSE default

\* mutant: one message for every status
DefaultMessage_Generic(status_code) == <<"API error: ", ToString(status_code)>>

\* the fixed message of each branch
DefaultMessage(status_code) ==
    IF status_code = 401 THEN <<"Authentication failed">>
    ELSE IF status_code = 404 THEN <<"Resource not found">>
    ELSE IF status_code = 400 THEN <<"Bad request">>
    ELSE <<"API error: ", ToString(status_code)>>

\* mutant: the classes of 404 and 400 are exchanged
ErrorClass_Swapped(status_code) ==
    IF status_code = 401 THEN "AuthenticationError"
    ELSE IF status_code = 404 THEN "BadRequestError"
    ELSE IF status_code = 400 THEN "NotFoundError"
    ELSE "APIError"

\* the exception class of each branch
ErrorClass(status_code) ==
    IF status_code = 401 THEN "AuthenticationError"
    ELSE IF status_code = 404 THEN "NotFoundError"
    ELSE IF status_code = 400 THEN "BadRequestError"
    ELSE "APIError"

\* mutant: the branch of the other statuses >= 400 is missing
IsErrorStatus_NamedOnly(status_code) ==
    \/ status_code = 401
    \/ status_code = 404
    \/ status_code = 400

\* whether _handle_response raises on the status
IsErrorStatus(status_code) ==
    \/ status_code = 401
    \/ status_code = 404
    \/ status_code = 400
    \/ status_code >= 400

\* raise Cls(message, response.status_code): response_body keeps its default
RaiseFor(status_code, body) ==
    APIErrorInit(ErrorClass(status_code),
                 ErrorMessage(body, DefaultMessage(status_code)),
                 status_code, NoBody)

\* return response.json()
ReturnJson(body) ==
    IF json_loads(body).ok
    THEN Returned(json_loads(body).val)
    ELSE Raised("JSONDecodeError", <<>>)

_handle_response(status_code, body) ==
    IF IsErrorStatus(status_code)
    THEN RaiseFor(status_code, body)
    ELSE ReturnJson(body)

-----------------------------------------------------------------------------
(* The responses a server can give.                                        *)

Statuses == {200, 399, 400, 401, 403, 404, 500}

Bodies ==
    { <<"{", "\"error\":\"denied\"", "}">>,
      <<"{", "\"content\":\"hi\"", "}">>,
      <<"[1]">>,
      <<"<html>">> }

\* no response yet; `via` is the handle a response was opened through
NoResponse == [status |-> 0, body |-> <<>>, open |-> FALSE, via |-> 0]

NoExchange == [connects |-> FALSE, status |-> 0, body |-> <<>>]

-----------------------------------------------------------------------------
(* client.py: LangDAGClient._get_client, close, _request, _stream_request. *)

\* mutant: _get_client() builds a new httpx.Client on every call
GetClient_AlwaysNew ==
    /\ Len(handles) < MaxHandles
    /\ handles' = Append(handles, "open")
    /\ _client' = Len(handles) + 1

\* _get_client(): the handle it returns, creating one when _client is None
GetClient ==
    IF _client = 0
    THEN /\ Len(handles) < MaxHandles
         /\ handles' = Append(handles, "open")
         /\ _client' = Len(handles) + 1
    ELSE UNCHANGED <<_client, handles>>

\* close()
Close ==
    /\ gen # "running"
    /\ IF _client # 0
       THEN /\ handles' = [handles EXCEPT ![_client] = "closed"]
            /\ _client' = 0
       ELSE UNCHANGED <<_client, handles>>
    /\ UNCHANGED <<response, exchange, result, stream_result>>
    /\ UNCHANGED decoderVars
    /\ UNCHANGED restVars

\* _request(method, path): `connects` FALSE stands for httpx.ConnectError
Request ==
    /\ gen # "running"
    /\ GetClient
    /\ \E connects \in BOOLEAN, status \in Statuses, body \in Bodies :
        IF connects
        THEN /\ exchange' = [connects |-> TRUE, status |-> status, body |-> body]
             /\ result' = _handle_response(status, body)
        ELSE /\ exchange' = NoExchange
             /\ result' = RaisedFrom("ConnectionError", <<"Failed to connect">>, "httpx.ConnectError")
    /\ UNCHANGED <<response, stream_result>>
    /\ UNCHANGED decoderVars
    /\ UNCHANGED restVars

\* mutant: the call itself gets the handle and opens the response
StreamRequest_Eager ==
    /\ gen \in {"none", "done", "raised", "closed"}
    /\ gen' = "created"
    /\ GetClient
    /\ lines_read' = <<>>
    /\ event_type' = None
    /\ data_lines' = <<>>
    /\ events' = <<>>
    /\ response' = [status |-> 200, body |-> <<>>, open |-> TRUE, via |-> _client']
    /\ stream_result' = NoResult
    /\ UNCHANGED <<exchange, result>>
    /\ UNCHANGED restVars

\* _stream_request(method, path): calling the generator function runs none of it
StreamRequest ==
    /\ gen \in {"none", "done", "raised", "closed"}
    /\ gen' = "created"
    /\ lines_read' = <<>>
    /\ event_type' = None
    /\ data_lines' = <<>>
    /\ events' = <<>>
    /\ response' = NoResponse
    /\ stream_result' = NoResult
    /\ UNCHANGED <<_client, handles, exchange, result>>
    /\ UNCHANGED restVars

\* mutant: the status is compared with > 400
StreamOpen_Above400 ==
    /\ gen = "created"
    /\ GetClient
    /\ \E connects \in BOOLEAN, status \in Statuses, body \in Bodies :
        IF ~connects
        THEN /\ stream_result' = RaisedFrom("ConnectionError", <<"Failed to connect">>, "httpx.ConnectError")
             /\ gen' = "raised"
             /\ UNCHANGED response
        ELSE IF status > 400 /\ _handle_response(status, body).kind = "raised"
        THEN \* response.read(); _handle_response raises; the with block closes
             /\ stream_result' = _handle_response(status, body)
             /\ gen' = "raised"
             /\ response' = [status |-> status, body |-> body, open |-> FALSE,
                              via |-> _client']
        ELSE \* yield from _parse_sse_stream(response.iter_lines())
             /\ stream_result' = NoResult
             /\ gen' = "running"
             /\ response' = [status |-> status, body |-> <<>>, open |-> TRUE,
                              via |-> _client']
    /\ UNCHANGED <<lines_read, event_type, data_lines, events, exchange, result>>
    /\ UNCHANGED restVars

\* the first next(): up to the first line of the body
StreamOpen ==
    /\ gen = "created"
    /\ GetClient
    /\ \E connects \in BOOLEAN, status \in Statuses, body \in Bodies :
        IF ~connects
        THEN /\ stream_result' = RaisedFrom("ConnectionError", <<"Failed to connect">>, "httpx.ConnectError")
             /\ gen' = "raised"
             /\ UNCHANGED response
        ELSE IF status >= 400 /\ _handle_response(status, body).kind = "raised"
        THEN \* response.read(); _handle_response raises; the with block closes
             /\ stream_result' = _handle_response(status, body)
             /\ gen' = "raised"
             /\ response' = [status |-> status, body |-> body, open |-> FALSE,
                              via |-> _client']
        ELSE \* yield from _parse_sse_stream(response.iter_lines())
             /\ stream_result' = NoResult
             /\ gen' = "running"
             /\ response' = [status |-> status, body |-> <<>>, open |-> TRUE,
                              via |-> _client']
    /\ UNCHANGED <<lines_read, event_type, data_lines, events, exchange, result>>
    /\ UNCHANGED restVars

\* a later next()
StreamPull ==
    /\ gen = "yielded"
    /\ response.open
    /\ Resume
    /\ UNCHANGED clientVars
    /\ UNCHANGED restVars

\* the decoder takes one line of the body
StreamReadLine ==
    /\ gen = "running"
    /\ response.open
    /\ \E raw \in StreamLines :
        /\ Len(lines_read) < MaxStreamLines
        /\ DecodeLine(raw)
    /\ UNCHANGED clientVars
    /\ UNCHANGED restVars

\* the body ends: the decoder returns and the with block closes the response
StreamEnd ==
    /\ gen = "running"
    /\ response.open
    /\ DecodeEnd
    /\ response' = [response EXCEPT !.open = FALSE]
    /\ UNCHANGED <<_client, handles, exchange, result, stream_result>>
    /\ UNCHANGED restVars

\* mutant: the suspended generator is dropped without leaving the with block
StreamAbandon_LeavesOpen ==
    /\ gen \in {"created", "yielded"}
    /\ gen' = "closed"
    /\ UNCHANGED response
    /\ UNCHANGED <<lines_read, event_type, data_lines, events>>
    /\ UNCHANGED <<_client, handles, exchange, result, stream_result>>
    /\ UNCHANGED restVars

\* generator.close() at a yield: GeneratorExit leaves the with block
StreamAbandon ==
    /\ gen \in {"created", "yielded"}
    /\ gen' = "closed"
    /\ response' = [response EXCEPT !.open = FALSE]
    /\ UNCHANGED <<lines_read, event_type, data_lines, events>>
    /\ UNCHANGED <<_client, handles, exchange, result, stream_result>>
    /\ UNCHANGED restVars

\* the decoder takes one line of the body of a long response
StreamReadLongLine ==
    /\ gen = "running"
    /\ response.open
    /\ \E raw \in StreamLines :
        /\ Len(lines_read) < MaxLongStreamLines
        /\ DecodeLine(raw)
    /\ UNCHANGED clientVars
    /\ UNCHANGED restVars

\* _get_client() of a second LangDAGClient, as any of its requests calls it
PeerGetClient ==
    /\ IF peer_client = 0
       THEN /\ Len(handles) < MaxHandles
            /\ handles' = Append(handles, "open")
            /\ peer_client' = Len(handles) + 1
       ELSE UNCHANGED <<peer_client, handles>>
    /\ UNCHANGED <<_client, response, exchange, result, stream_result>>
    /\ UNCHANGED decoderVars
    /\ UNCHANGED treeVars
    /\ UNCHANGED asyncVars
    /\ UNCHANGED otherVars
    /\ UNCHANGED threads

\* close() of the second LangDAGClient
PeerClose ==
    /\ IF peer_client # 0
       THEN /\ handles' = [handles EXCEPT ![peer_client] = "closed"]
            /\ peer_client' = 0
       ELSE UNCHANGED <<peer_client, handles>>
    /\ UNCHANGED <<_client, response, exchange, result, stream_result>>
    /\ UNCHANGED decoderVars
    /\ UNCHANGED treeVars
    /\ UNCHANGED asyncVars
    /\ UNCHANGED otherVars
    /\ UNCHANGED threads

\* a thread enters _get_client and evaluates `self._client is None`
ThreadCheck(t) ==
    /\ threads[t].pc = "idle"
    /\ threads' = [threads EXCEPT ![t].pc =
                      IF _client = 0 THEN "create" ELSE "return"]
    /\ UNCHANGED <<_client, handles>>

\* ... evaluates httpx.Client(...): a new handle, not yet stored
ThreadCreate(t) ==
    /\ threads[t].pc = "create"
    /\ Len(handles) < MaxHandles
    /\ handles' = Append(handles, "open")
    /\ threads' = [threads EXCEPT ![t].pc = "assign", ![t].made = Len(handles) + 1]
    /\ UNCHANGED _client

\* ... stores it: self._client = <the new handle>
ThreadAssign(t) ==
    /\ threads[t].pc = "assign"
    /\ _client' = threads[t].made
    /\ threads' = [threads EXCEPT ![t].pc = "return", ![t].made = 0]
    /\ UNCHANGED handles

\* ... return self._client: the handle the attribute holds at that moment
ThreadReturn(t) ==
    /\ threads[t].pc = "return"
    /\ threads' = [threads EXCEPT ![t].pc = "using", ![t].got = _client]
    /\ UNCHANGED <<_client, handles>>

\* ... and its request on the handle it got is over
ThreadFinish(t) ==
    /\ threads[t].pc = "using"
    /\ threads' = [threads EXCEPT ![t].pc = "idle", ![t].got = 0]
    /\ UNCHANGED <<_client, handles>>

\* one step of one of the threads
ThreadStep ==
    /\ \E t \in 1..MaxThreads :
        \/ ThreadCheck(t)
        \/ ThreadCreate(t)
        \/ ThreadAssign(t)
        \/ ThreadReturn(t)
        \/ ThreadFinish(t)
    /\ UNCHANGED <<response, exchange, result, stream_result>>
    /\ UNCHANGED decoderVars
    /\ UNCHANGED peer_client
    /\ UNCHANGED treeVars
    /\ UNCHANGED asyncVars
    /\ UNCHANGED otherVars

-----------------------------------------------------------------------------
(* async_client.py: _parse_sse_stream_async and                            *)
(* AsyncLangDAGClient._handle_response, run beside the blocking ones.      *)

\* mutant: the remainder of a data: line is appended as it is
AsyncFragment_Untrimmed(line) == SliceFrom(line, DATA)

\* line[5:].strip()
AsyncFragment(line) == strip(SliceFrom(line, DATA))

\* event_type = None; data_lines = []
AsyncReset ==
    /\ a_event_type' = None
    /\ a_data_lines' = <<>>

\* the body of `async for line in lines` on the raw line `raw`
AsyncDecodeLine(raw) ==
    LET line == rstrip(raw, {"\r", "\n"})
    IN  IF startswith(line, EVENT)
        THEN /\ a_event_type' = Some(strip(SliceFrom(line, EVENT)))
             /\ a_gen' = "running"
             /\ UNCHANGED <<a_data_lines, a_events>>
        ELSE IF startswith(line, DATA)
        THEN /\ a_data_lines' = Append(a_data_lines, AsyncFragment(line))
             /\ a_gen' = "running"
             /\ UNCHANGED <<a_event_type, a_events>>
        ELSE IF line = <<>>
        THEN IF a_event_type # None /\ a_data_lines # <<>>
             THEN LET data_str == join(<<"\n">>, a_data_lines)
                      data == IF json_loads(data_str).ok
                              THEN json_loads(data_str).val
                              ELSE Dict({<<"message", data_str>>})
                  IN  IF a_event_type.v \in SSEEventType
                      THEN /\ a_events' = Append(a_events, SSEEvent(a_event_type.v[1], data))
                           /\ a_gen' = "yielded"
                           /\ AsyncReset
                      ELSE /\ AsyncReset
                           /\ a_gen' = "running"
                           /\ UNCHANGED a_events
             ELSE /\ AsyncReset
                  /\ a_gen' = "running"
                  /\ UNCHANGED a_events
        ELSE /\ a_gen' = "running"
             /\ UNCHANGED <<a_event_type, a_data_lines, a_events>>

\* AsyncLangDAGClient._handle_response(response)
AsyncHandleResponse(status_code, body) ==
    IF status_code = 401
    THEN APIErrorInit("AuthenticationError",
             ErrorMessage(body, <<"Authentication failed">>), status_code, NoBody)
    ELSE IF status_code = 404
    THEN APIErrorInit("NotFoundError",
             ErrorMessage(body, <<"Resource not found">>), status_code, NoBody)
    ELSE IF status_code = 400
    THEN APIErrorInit("BadRequestError",
             ErrorMessage(body, <<"Bad request">>), status_code, NoBody)
    ELSE IF status_code >= 400
    THEN APIErrorInit("APIError",
             ErrorMessage(body, <<"API error: ", ToString(status_code)>>),
             status_code, NoBody)
    ELSE ReturnJson(body)

\* next() and anext(): each suspended generator is resumed
PairPull ==
    /\ result = NoResult
    /\ gen \in {"created", "yielded"} \/ a_gen \in {"created", "yielded"}
    /\ gen' = IF gen \in {"created", "yielded"} THEN "running" ELSE gen
    /\ a_gen' = IF a_gen \in {"created", "yielded"} THEN "running" ELSE a_gen
    /\ UNCHANGED <<lines_read, event_type, data_lines, events>>
    /\ UNCHANGED <<a_event_type, a_data_lines, a_events, a_result>>
    /\ UNCHANGED clientVars
    /\ UNCHANGED <<peer_client, tree, children, printed, frames, tree_pc>>
    /\ UNCHANGED otherVars
    /\ UNCHANGED threads

\* both generators take the same line
PairReadLine ==
    /\ gen = "running"
    /\ a_gen = "running"
    /\ \E raw \in Lines :
        /\ WithinBudget(Append(lines_read, raw))
        /\ DecodeLine(raw)
        /\ AsyncDecodeLine(raw)
    /\ UNCHANGED a_result
    /\ UNCHANGED clientVars
    /\ UNCHANGED <<peer_client, tree, children, printed, frames, tree_pc>>
    /\ UNCHANGED otherVars
    /\ UNCHANGED threads

\* both line sources end
PairEnd ==
    /\ gen = "running"
    /\ a_gen = "running"
    /\ DecodeEnd
    /\ a_gen' = "done"
    /\ UNCHANGED <<a_event_type, a_data_lines, a_events, a_result>>
    /\ UNCHANGED clientVars
    /\ UNCHANGED <<peer_client, tree, children, printed, frames, tree_pc>>
    /\ UNCHANGED otherVars
    /\ UNCHANGED threads

\* both _handle_response methods get the same response
PairHandleResponse ==
    /\ gen = "created"
    /\ a_gen = "created"
    /\ \E status \in Statuses, body \in Bodies :
        /\ exchange' = [connects |-> TRUE, status |-> status, body |-> body]
        /\ result' = _handle_response(status, body)
        /\ a_result' = AsyncHandleResponse(status, body)
    /\ UNCHANGED <<_client, handles, response, stream_result>>
    /\ UNCHANGED decoderVars
    /\ UNCHANGED <<a_event_type, a_data_lines, a_events, a_gen>>
    /\ UNCHANGED <<peer_client, tree, children, printed, frames, tree_pc>>
    /\ UNCHANGED otherVars
    /\ UNCHANGED threads

-----------------------------------------------------------------------------

(* example.py: print_tree_structure.                                       *)

\* Node.parent_id of a root: None
NullId == "None"
\* an id no Node of the list has
AbsentId == "x"
\* the id of the i-th Node of the list; ids are opaque and only compared
IdNames == <<"a", "b", "c", "d", "e">>
NodeIds == {IdNames[i] : i \in 1..MaxNodes}
ParentIds == NodeIds \cup {AbsentId, NullId}
\* Node.sequence
SequenceValues == {1, 2}

\* the flat Node lists: distinct ids, any parent_id, any sequence
Trees ==
    UNION { { [i \in 1..n |-> [id |-> IdNames[i],
                               parent_id |-> f[i][1],
                               sequence |-> f[i][2]]] :
                f \in [1..n -> ParentIds \X SequenceValues] } :
            n \in 0..MaxNodes }

\* the ids of a list of Nodes, in order
IdsOf(ns) == [i \in 1..Len(ns) |-> ns[i].id]

\* mutant: the children of a parent are ordered by Node.sequence
ChildrenOf_BySequence(t, p) ==
    IdsOf(SelectSeq(t, LAMBDA n : n.parent_id = p /\ n.sequence = 1))
    \o IdsOf(SelectSeq(t, LAMBDA n : n.parent_id = p /\ n.sequence = 2))

\* mutant: the first Node of the list is walked as a root whatever its parent_id
ChildrenOf_FirstNodeAsRoot(t, p) ==
    IdsOf(SelectSeq(t, LAMBDA n :
        \/ n.parent_id = p
        \/ p = NullId /\ n.id = t[1].id))

\* mutant: a Node whose parent_id names no Node of the list is made a root
ChildrenOf_OrphansAsRoots(t, p) ==
    IdsOf(SelectSeq(t, LAMBDA n :
        \/ n.parent_id = p
        \/ p = NullId /\ \A i \in 1..Len(t) : t[i].id # n.parent_id))

\* children[p] after the loop over tree: the ids appended under the key p
ChildrenOf(t, p) == IdsOf(SelectSeq(t, LAMBDA n : n.parent_id = p))

\* the dict children after the loop: one key per parent_id met
BuildChildrenMap(t) ==
    [p \in {t[i].parent_id : i \in 1..Len(t)} |-> ChildrenOf(t, p)]

\* children.get(key, [])
children_get(ch, key) == IF key \in DOMAIN ch THEN ch[key] ELSE <<>>

\* tree = client.get_tree(root_id)
GetTree ==
    /\ tree_pc = "none"
    /\ \E t \in Trees : tree' = t
    /\ tree_pc' = "fetched"
    /\ UNCHANGED <<children, printed, frames>>
    /\ UNCHANGED <<peer_client, a_event_type, a_data_lines, a_events, a_gen, a_result>>
    /\ UNCHANGED decoderVars
    /\ UNCHANGED clientVars
    /\ UNCHANGED otherVars
    /\ UNCHANGED threads

\* the loop that fills children, up to the loop over children.get(None, [])
BuildChildren ==
    /\ tree_pc = "fetched"
    /\ children' = BuildChildrenMap(tree)
    /\ frames' = <<[node_id |-> NullId, next |-> 1, indent |-> 1]>>
    /\ tree_pc' = "walking"
    /\ UNCHANGED <<tree, printed>>
    /\ UNCHANGED <<peer_client, a_event_type, a_data_lines, a_events, a_gen, a_result>>
    /\ UNCHANGED decoderVars
    /\ UNCHANGED clientVars
    /\ UNCHANGED otherVars
    /\ UNCHANGED threads

\* the innermost loop takes its next child id and calls print_node on it,
\* which prints the node
PrintNode ==
    /\ tree_pc = "walking"
    /\ frames # <<>>
    /\ LET top == frames[Len(frames)]
           kids == children_get(children, top.node_id)
       IN  /\ top.next <= Len(kids)
           /\ printed' = Append(printed,
                  [id |-> kids[top.next], indent |-> top.indent + 1])
           /\ frames' = Append([frames EXCEPT ![Len(frames)].next = top.next + 1],
                  [node_id |-> kids[top.next], next |-> 1, indent |-> top.indent + 1])
    /\ UNCHANGED <<tree, children, tree_pc>>
    /\ UNCHANGED <<peer_client, a_event_type, a_data_lines, a_events, a_gen, a_result>>
    /\ UNCHANGED decoderVars
    /\ UNCHANGED clientVars
    /\ UNCHANGED otherVars
    /\ UNCHANGED threads

\* the innermost loop is exhausted: print_node returns, or the whole function
ReturnNode ==
    /\ tree_pc = "walking"
    /\ frames # <<>>
    /\ LET top == frames[Len(frames)]
           kids == children_get(children, top.node_id)
       IN  /\ top.next > Len(kids)
           /\ frames' = SubSeq(frames, 1, Len(frames) - 1)
           /\ tree_pc' = IF Len(frames) = 1 THEN "returned" ELSE "walking"
    /\ UNCHANGED <<tree, children, printed>>
    /\ UNCHANGED <<peer_client, a_event_type, a_data_lines, a_events, a_gen, a_result>>
    /\ UNCHANGED decoderVars
    /\ UNCHANGED clientVars
    /\ UNCHANGED otherVars
    /\ UNCHANGED threads

-----------------------------------------------------------------------------
(* The specifications.                                                     *)

InitDecoder ==
    /\ lines_read = <<>>
    /\ event_type = None
    /\ data_lines = <<>>
    /\ events = <<>>

InitClient ==
    /\ _client = 0
    /\ handles = <<>>
    /\ response = NoResponse
    /\ exchange = NoExchange
    /\ result = NoResult
    /\ stream_result = NoResult

\* print_tree_structure has not been called
InitTree ==
    /\ tree = <<>>
    /\ children = <<>>
    /\ printed = <<>>
    /\ frames = <<>>
    /\ tree_pc = "none"

\* _parse_sse_stream_async has nothing pending
InitAsyncDecoder ==
    /\ a_event_type = None
    /\ a_data_lines = <<>>
    /\ a_events = <<>>
    /\ a_result = NoResult

\* no thread is inside _get_client
InitThreads ==
    threads = [t \in 1..MaxThreads |-> [pc |-> "idle", made |-> 0, got |-> 0]]

\* a second call of _parse_sse_stream has nothing pending
InitOtherDecoder ==
    /\ o_lines_read = <<>>
    /\ o_event_type = None
    /\ o_data_lines = <<>>
    /\ o_events = <<>>

\* no second client, no tree, no async call, no second decoder
InitRest ==
    /\ peer_client = 0
    /\ InitTree
    /\ InitAsyncDecoder
    /\ a_gen = "none"
    /\ InitOtherDecoder
    /\ o_gen = "none"
    /\ InitThreads

\* _parse_sse_stream on a line iterator
InitSSE == InitDecoder /\ gen = "created" /\ InitClient /\ InitRest

NextSSE == Pull \/ ReadLine \/ EndOfLines

SpecSSE == InitSSE /\ [][NextSSE]_vars

\* ... whose consumer keeps pulling and whose line source delivers or ends
FairSpecSSE == SpecSSE /\ WF_vars(NextSSE)

\* _parse_sse_stream on a line iterator of multi-line events
NextData == Pull \/ ReadDataLine \/ EndOfLines

SpecData == InitSSE /\ [][NextData]_vars

\* _parse_sse_stream on a line iterator with comment and field lines
NextCommented == Pull \/ ReadCommentedLine \/ EndOfLines

SpecCommented == InitSSE /\ [][NextCommented]_vars

\* two calls of _parse_sse_stream whose consumers pull in any order
InitSessions ==
    /\ InitDecoder
    /\ gen = "created"
    /\ InitClient
    /\ peer_client = 0
    /\ InitTree
    /\ InitAsyncDecoder
    /\ a_gen = "none"
    /\ InitOtherDecoder
    /\ o_gen = "created"
    /\ InitThreads

NextSessions ==
    \/ Pull
    \/ SessionReadLine
    \/ EndOfLines
    \/ OtherPull
    \/ OtherReadLine
    \/ OtherEndOfLines

SpecSessions == InitSessions /\ [][NextSessions]_vars

\* a LangDAGClient and its calls
Init == InitDecoder /\ gen = "none" /\ InitClient /\ InitRest

Next ==
    \/ Request
    \/ Close
    \/ StreamRequest
    \/ StreamOpen
    \/ StreamPull
    \/ StreamReadLine
    \/ StreamEnd
    \/ StreamAbandon

Spec == Init /\ [][Next]_vars

\* one LangDAGClient making streaming calls with long bodies
NextStream ==
    \/ StreamRequest
    \/ StreamOpen
    \/ StreamPull
    \/ StreamReadLongLine
    \/ StreamEnd
    \/ StreamAbandon

SpecStream == Init /\ [][NextStream]_vars

\* ... with close() called between the pulls
NextClosing == NextStream \/ Close

SpecClosing == Init /\ [][NextClosing]_vars

\* two LangDAGClient instances; the first makes buffered and streaming calls
NextClients ==
    \/ Request
    \/ Close
    \/ StreamRequest
    \/ StreamOpen
    \/ StreamEnd
    \/ StreamAbandon
    \/ PeerGetClient
    \/ PeerClose

SpecClients == Init /\ [][NextClients]_vars

\* threads calling one LangDAGClient; close() is called between their steps
NextThreads == ThreadStep \/ Close

SpecThreads == Init /\ [][NextThreads]_vars

\* print_tree_structure on one flat Node list
NextTree == GetTree \/ BuildChildren \/ PrintNode \/ ReturnNode

SpecTree == Init /\ [][NextTree]_vars

\* ... run to its end
FairSpecTree == SpecTree /\ WF_vars(NextTree)

\* _parse_sse_stream and _parse_sse_stream_async on one line sequence, or
\* the two _handle_response methods on one response
InitPair ==
    /\ InitDecoder
    /\ gen = "created"
    /\ InitClient
    /\ peer_client = 0
    /\ InitTree
    /\ InitAsyncDecoder
    /\ a_gen = "created"
    /\ InitOtherDecoder
    /\ o_gen = "none"
    /\ InitThreads

NextPair == PairPull \/ PairReadLine \/ PairEnd \/ PairHandleResponse

SpecPair == InitPair /\ [][NextPair]_vars

-----------------------------------------------------------------------------
(* The line history read back: what the lines taken so far amount to,      *)
(* computed from lines_read alone.                                         *)

CRLF == {"\r", "\n"}

\* the line at position i, without its line ending
LineAt(ls, i) == rstrip(ls[i], CRLF)

\* the positions of the empty lines
BlankPositions(ls) == {i \in 1..Len(ls) : LineAt(ls, i) = <<>>}

\* the first position of the block of lines that the empty line at i ends
BlockStart(ls, i) ==
    LET before == {j \in BlankPositions(ls) : j < i}
    IN  IF before = {} THEN 1
        ELSE 1 + CHOOSE j \in before : \A k \in before : k <= j

\* the positions of the event: and of the data: lines of the block ending at i
TypePositions(ls, i) ==
    {k \in BlockStart(ls, i)..(i - 1) :
        Len(LineAt(ls, k)) > 0 /\ LineAt(ls, k)[1] = "event:"}
DataPositions(ls, i) ==
    {k \in BlockStart(ls, i)..(i - 1) :
        Len(LineAt(ls, k)) > 0 /\ LineAt(ls, k)[1] = "data:"}

\* the kind the block names: the trimmed remainder of its last event: line
BlockKind(ls, i) ==
    LET k == CHOOSE k \in TypePositions(ls, i) : \A m \in TypePositions(ls, i) : m <= k
    IN  strip(Tail(LineAt(ls, k)))

RECURSIVE BlockText(_, _, _)
\* the data: remainders of the block from position k on, trimmed, one per line
BlockText(ls, i, k) ==
    IF \A m \in DataPositions(ls, i) : m < k THEN <<>>
    ELSE LET n == CHOOSE n \in DataPositions(ls, i) :
                    n >= k /\ \A m \in DataPositions(ls, i) : m >= k => n <= m
             rest == BlockText(ls, i, n + 1)
             more == \E m \in DataPositions(ls, i) : m > n
         IN  strip(Tail(LineAt(ls, n))) \o (IF more THEN <<"\n">> ELSE <<>>) \o rest

KnownKinds == {"start", "delta", "done", "error"}

\* the empty line at i ends a block with a type and with data
Terminates(ls, i) ==
    /\ i \in BlankPositions(ls)
    /\ TypePositions(ls, i) # {}
    /\ DataPositions(ls, i) # {}

\* ... of a known kind
Closes(ls, i) ==
    /\ Terminates(ls, i)
    /\ \E kind \in KnownKinds : BlockKind(ls, i) = <<kind>>

\* ... of an unknown kind
Drops(ls, i) == Terminates(ls, i) /\ ~Closes(ls, i)

ClosingPositions(ls) == {i \in 1..Len(ls) : Closes(ls, i)}

\* how many known-kind events the lines up to position i have closed
Rank(ls, i) == Cardinality({j \in ClosingPositions(ls) : j <= i})

\* the step takes one line from the line iterator
TakesLine == Len(lines_read') = Len(lines_read) + 1

\* the line the step takes, without its line ending
TakenLine == LineAt(lines_read', Len(lines_read'))

-----------------------------------------------------------------------------
(* The SSE decoder.                                                        *)

\* C1: a step of the decoder hands over an event only when it takes an empty
\* line while a type is pending and at least one data fragment is pending, and
\* then exactly one event; no step on an event: or data: line, no empty line
\* after a type without data, and no end of the line source hands over anything.
C1_EmitsOnlyOnTerminator ==
    [][events' # events =>
          /\ TakesLine
          /\ TakenLine = <<>>
          /\ event_type.some
          /\ data_lines # <<>>
          /\ Len(events') = Len(events) + 1
          /\ SubSeq(events', 1, Len(events)) = events]_vars

\* C1 witness: the line source has ended after one event was handed over, with
\* an event still pending that no empty line terminated.
C1_Witness ==
    /\ gen = "done"
    /\ Len(events) = 1
    /\ event_type.some
    /\ data_lines # <<>>

\* C2: the events handed over are, in order, the events of the empty lines that
\* closed a known-kind event with data: the i-th event has the kind and the data
\* of the i-th such line, and there are as many events as such lines.
C2_EventsInTerminatorOrder ==
    /\ Len(events) = Cardinality(ClosingPositions(lines_read))
    /\ \A i \in ClosingPositions(lines_read) :
          /\ Rank(lines_read, i) <= Len(events)
          /\ <<events[Rank(lines_read, i)].event>> = BlockKind(lines_read, i)
          /\ LET text == BlockText(lines_read, i, 1)
                 data == events[Rank(lines_read, i)].data
             IN  \/ data = Dict({<<"message", text>>})
                 \/ json_loads(text).ok /\ data = json_loads(text).val

\* C2 witness: two different events have been handed over.
C2_Witness ==
    /\ Len(events) = 2
    /\ events[1] # events[2]

\* C3: the empty line that ends an event of an unknown type hands over nothing,
\* leaves the decoder running with nothing pending, and every known-kind event
\* closed after it is handed over.
C3_UnknownTypeDropped ==
    /\ [][(/\ TakesLine
           /\ TakenLine = <<>>
           /\ event_type.some
           /\ data_lines # <<>>
           /\ \A kind \in KnownKinds : event_type.v # <<kind>>)
          => /\ events' = events
             /\ gen' = "running"
             /\ ~event_type'.some
             /\ data_lines' = <<>>]_vars
    /\ [](\A i \in 1..Len(lines_read), j \in 1..Len(lines_read) :
            (Drops(lines_read, i) /\ i < j /\ Closes(lines_read, j))
            => /\ Rank(lines_read, j) <= Len(events)
               /\ <<events[Rank(lines_read, j)].event>> = BlockKind(lines_read, j))

\* C3 witness: an unknown-type event was dropped and a known-kind event after it
\* has been handed over.
C3_Witness ==
    /\ events # <<>>
    /\ \E i \in 1..Len(lines_read), j \in 1..Len(lines_read) :
          Drops(lines_read, i) /\ i < j /\ Closes(lines_read, j)

\* C4: when the pending data, joined with newlines, is no JSON text, the empty
\* line that ends an event of a known kind hands over exactly one event, of that
\* kind, whose data is {"message": <the joined text>}, and the decoder goes on.
C4_PlainTextBecomesMessage ==
    [][(/\ TakesLine
        /\ TakenLine = <<>>
        /\ event_type.some
        /\ data_lines # <<>>
        /\ \E kind \in KnownKinds : event_type.v = <<kind>>
        /\ ~json_loads(join(<<"\n">>, data_lines)).ok)
       => /\ gen' = "yielded"
          /\ events' = Append(events,
                 [event |-> event_type.v[1],
                  data |-> Dict({<<"message", join(<<"\n">>, data_lines)>>})])]_vars

\* C4 witness: a delta event whose data line is plain text was handed over.
C4_Witness ==
    /\ events # <<>>
    /\ events[Len(events)].event = "delta"
    /\ events[Len(events)].data = Dict({<<"message", <<"oops">>>>})

\* C5: every event handed over has a dict as its data, so that content,
\* node_id and dag_id return a value or None and never raise.
C5_PayloadIsAMap ==
    \A i \in 1..Len(events) :
        /\ events[i].data.tag = "dict"
        /\ ~content(events[i]).raises
        /\ ~node_id(events[i]).raises
        /\ ~dag_id(events[i]).raises

-----------------------------------------------------------------------------
(* The error taxonomy and the request executor.                            *)

\* the body gives no error message: it is no JSON text, or no dict, or a dict
\* without the key "error"
NoErrorMessage(body) ==
    \/ ~json_loads(body).ok
    \/ json_loads(body).val.tag # "dict"
    \/ \A p \in json_loads(body).val.kv : p[1] # "error"

\* the _request that `exchange` and `result` record raised the exception `cls`
\* carrying the status received
RaisedWithStatus(cls) ==
    /\ result.kind = "raised"
    /\ result.exc = cls
    /\ result.status_code = exchange.status

\* C6: a received status of 401 raises AuthenticationError, 404 NotFoundError,
\* 400 BadRequestError and any other status >= 400 APIError, each carrying the
\* status received; the three named classes are subclasses of APIError.
C6_StatusClassification ==
    /\ exchange.connects =>
          /\ exchange.status = 401 => RaisedWithStatus("AuthenticationError")
          /\ exchange.status = 404 => RaisedWithStatus("NotFoundError")
          /\ exchange.status = 400 => RaisedWithStatus("BadRequestError")
          /\ (exchange.status >= 400 /\ exchange.status \notin {400, 401, 404})
                => RaisedWithStatus("APIError")
    /\ \A cls \in {"AuthenticationError", "NotFoundError", "BadRequestError"} :
          /\ issubclass(cls, "APIError")
          /\ ~issubclass("APIError", cls)

\* C6 witness: a status of 403 was received and APIError itself was raised.
C6_Witness ==
    /\ exchange.connects
    /\ exchange.status = 403
    /\ result.kind = "raised"
    /\ result.exc = "APIError"

C8_ErrorCarriesParsedBody ==
    (exchange.connects /\ result.kind = "raised" /\ issubclass(result.exc, "APIError"))
    => /\ result.status_code = exchange.status
       /\ json_loads(exchange.body).ok =>
             result.response_body = [some |-> TRUE, v |-> json_loads(exchange.body).val]

\* C9: _request returns a value only for a status below 400, and the value is
\* the parsed body; for every status >= 400 it raises an APIError.
C9_BodyOnlyBelow400 ==
    exchange.connects =>
        /\ result.kind = "returned" =>
              /\ exchange.status < 400
              /\ json_loads(exchange.body).ok
              /\ result.value = json_loads(exchange.body).val
        /\ exchange.status >= 400 =>
              /\ result.kind = "raised"
              /\ issubclass(result.exc, "APIError")

\* C9 witness: a 200 response returned its parsed body.
C9_Witness ==
    /\ exchange.connects
    /\ exchange.status = 200
    /\ result.kind = "returned"
    /\ result.value.kv # {}

\* C10: a streaming call whose response has a status >= 400 raises on the first
\* pull, before any line is decoded or any event handed over, an APIError with
\* that status, equal to what _request raises for the same status and body.
C10_StreamErrorStatusRaisesFirst ==
    (gen \notin {"none", "created"} /\ response.status >= 400)
    => /\ gen = "raised"
       /\ events = <<>>
       /\ lines_read = <<>>
       /\ stream_result.kind = "raised"
       /\ issubclass(stream_result.exc, "APIError")
       /\ stream_result.status_code = response.status
       /\ (/\ exchange.connects
           /\ exchange.status = response.status
           /\ exchange.body = response.body) => stream_result = result

\* C10 witness: a stream and a _request both met a 404 with the same body.
C10_Witness ==
    /\ gen = "raised"
    /\ response.status = 404
    /\ exchange.connects
    /\ exchange.status = response.status
    /\ exchange.body = response.body
    /\ stream_result.exc = "NotFoundError"

-----------------------------------------------------------------------------
(* Streams, connections and handles.                                       *)

\* the empty line at i closed an event of the error kind
ClosesError(ls, i) == Closes(ls, i) /\ BlockKind(ls, i) = <<"error">>

IsConnectionFailure(r) ==
    /\ r.kind = "raised"
    /\ r.exc = "ConnectionError"
    /\ r.cause = "httpx.ConnectError"
    /\ ~issubclass(r.exc, "APIError")

\* the outcome `r` is an API error raised for a response of status `status`
IsAPIFailure(r, status) ==
    /\ r.kind = "raised"
    /\ issubclass(r.exc, "APIError")
    /\ r.exc # "ConnectionError"
    /\ r.status_code = status
    /\ r.cause = ""

StreamEnded == gen \in {"done", "raised", "closed"}

\* C13: whenever the generator of a streaming call has finished (it returned
\* after the last line, it raised for an error status or a failed connection,
\* or the consumer closed it after any number of events) the response it
\* opened is closed; a response is open only while the generator is running or
\* suspended at a yield, and every step that finishes the generator leaves the
\* response closed.
C13_ResponseReleasedOnEveryExit ==
    /\ [](StreamEnded => ~response.open)
    /\ [](response.open => gen \in {"running", "yielded"})
    /\ [][(StreamEnded' /\ ~StreamEnded) => ~response'.open]_vars

\* C13 witness: the consumer closed the generator of a stream opened with
\* status 200 after two events, and the response is closed.
C13_Witness ==
    /\ gen = "closed"
    /\ response.status = 200
    /\ Len(events) = 2
    /\ ~response.open

\* C14: a LangDAGClient starts with _client None; _client becomes a handle only
\* in a step of _request or _stream_request, and that handle is a newly built,
\* open httpx.Client; a request made while _client is set leaves _client and
\* every handle as they are; close() on a client with a handle closes that
\* handle and sets _client to None, and _client changes in no other way; the
\* open handles are exactly the ones some instance holds, and the two
\* instances never hold the same one.
C14_HandleLazyReusedReleasedUnshared ==
    /\ _client = 0 /\ peer_client = 0 /\ handles = <<>>
    /\ [][(_client = 0 /\ _client' # 0)
          => /\ Request \/ StreamOpen
             /\ _client' = Len(handles) + 1
             /\ handles' = Append(handles, "open")]_vars
    /\ [][((Request \/ StreamOpen) /\ _client # 0)
          => UNCHANGED <<_client, handles>>]_vars
    /\ [][(Close /\ _client # 0)
          => /\ _client' = 0
             /\ handles' = [handles EXCEPT ![_client] = "closed"]]_vars
    /\ [][(_client # 0 /\ _client' # _client) => (Close /\ _client' = 0)]_vars
    /\ [](\A h \in 1..Len(handles) :
            handles[h] = "open" <=> h \in {_client, peer_client})
    /\ [](_client # 0 => _client # peer_client)

\* C14 witness: after a request of each, the two instances hold two different
\* open handles.
C14_Witness ==
    /\ result.kind # "none"
    /\ _client # 0
    /\ peer_client # 0
    /\ _client # peer_client
    /\ handles[_client] = "open"
    /\ handles[peer_client] = "open"

-----------------------------------------------------------------------------
(* The tree reconstruction.                                                *)

\* the position in the list of the Node with id x, 0 when there is none
IndexOf(t, x) ==
    IF \E i \in 1..Len(t) : t[i].id = x
    THEN CHOOSE i \in 1..Len(t) : t[i].id = x
    ELSE 0

RECURSIVE ReachesRoot(_, _, _)
\* following parent_id from id x arrives at None within `fuel` Nodes
ReachesRoot(t, x, fuel) ==
    IF x = NullId THEN TRUE
    ELSE IF fuel = 0 \/ IndexOf(t, x) = 0 THEN FALSE
    ELSE ReachesRoot(t, t[IndexOf(t, x)].parent_id, fuel - 1)

\* every Node is a root or hangs, through Nodes of the list, below a root
IsForest(t) == \A i \in 1..Len(t) : ReachesRoot(t, t[i].id, Len(t))

\* the parent_id of the i-th Node names no Node of the list
Dangling(t, i) == t[i].parent_id # NullId /\ IndexOf(t, t[i].parent_id) = 0

RECURSIVE AtOrBelow(_, _, _, _)
\* id x is id y, or hangs below it
AtOrBelow(t, x, y, fuel) ==
    IF x = y THEN TRUE
    ELSE IF fuel = 0 \/ IndexOf(t, x) = 0 THEN FALSE
    ELSE AtOrBelow(t, t[IndexOf(t, x)].parent_id, y, fuel - 1)

\* the positions at which id x was printed
PrintedAt(x) == {k \in 1..Len(printed) : printed[k].id = x}

\* C15: when the list is a forest, at every moment of the walk each printed
\* Node that has a parent was printed after its parent, each printed Node was
\* printed after every Node with the same parent_id that stands before it in
\* the list, whatever their sequence values, and no Node was printed twice;
\* and when the walk has returned every Node of the list was printed.
C15_ParentsFirstSiblingsInInputOrder ==
    IsForest(tree) =>
        /\ \A i \in 1..Len(tree) : \A k \in PrintedAt(tree[i].id) :
              tree[i].parent_id # NullId
              => \E m \in PrintedAt(tree[i].parent_id) : m < k
        /\ \A i \in 1..Len(tree), j \in 1..Len(tree) :
              (i < j /\ tree[i].parent_id = tree[j].parent_id)
              => \A k \in PrintedAt(tree[j].id) :
                    \E m \in PrintedAt(tree[i].id) : m < k
        /\ \A i \in 1..Len(tree) : Cardinality(PrintedAt(tree[i].id)) <= 1
        /\ tree_pc = "returned"
              => \A i \in 1..Len(tree) : PrintedAt(tree[i].id) # {}

\* C15 witness: the walk of a root with two children has returned; the first
\* child in the list has the larger sequence value and was printed first.
C15_Witness ==
    /\ tree_pc = "returned"
    /\ Len(tree) = 3
    /\ tree[1].parent_id = NullId
    /\ tree[2].parent_id = tree[1].id
    /\ tree[3].parent_id = tree[1].id
    /\ tree[2].sequence > tree[3].sequence
    /\ IdsOf(printed) = <<tree[1].id, tree[2].id, tree[3].id>>

\* C16: a Node whose parent_id names no Node of the list is never among the
\* children of None or of a Node of the list, and neither it nor any Node
\* below it is ever printed.
C16_DanglingNodeNeverVisited ==
    \A i \in 1..Len(tree) :
        /\ Dangling(tree, i)
           => \A p \in {NullId} \cup {tree[j].id : j \in 1..Len(tree)} :
                 \A k \in 1..Len(children_get(children, p)) :
                    children_get(children, p)[k] # tree[i].id
        /\ (\E j \in 1..Len(tree) :
               Dangling(tree, j) /\ AtOrBelow(tree, tree[i].id, tree[j].id, Len(tree)))
           => PrintedAt(tree[i].id) = {}

\* C16 witness: the walk has returned for a list of a root, a Node with an
\* absent parent and a child of that Node; only the root was printed.
C16_Witness ==
    /\ tree_pc = "returned"
    /\ Len(tree) = 3
    /\ tree[1].parent_id = NullId
    /\ Dangling(tree, 2)
    /\ tree[3].parent_id = tree[2].id
    /\ IdsOf(printed) = <<tree[1].id>>

\* C17: print_tree_structure returns normally only for a list that is a
\* forest; for a list with a dangling parent_id or a cycle it reports the
\* corrupt data instead of returning with Nodes left out.
C17_CorruptTreeReported ==
    tree_pc = "returned" => IsForest(tree)

-----------------------------------------------------------------------------
(* The blocking and the non-blocking variants.                             *)

\* C18: fed the same lines, _parse_sse_stream and _parse_sse_stream_async have
\* handed over the same events, are at the same position and hold the same
\* pending type and data; given the same status and body, the two
\* _handle_response methods end with the same outcome: the same exception
\* class, status code and message, or the same returned body.
C18_BlockingAndAsyncAgree ==
    /\ a_events = events
    /\ a_gen = gen
    /\ a_event_type = event_type
    /\ a_data_lines = data_lines
    /\ a_result = result

\* C18 witness: both generators have returned after the same lines, among them
\* a data: line, and handed over one event each.
C18_Witness ==
    /\ gen = "done"
    /\ a_gen = "done"
    /\ Len(events) = 1
    /\ Len(a_events) = 1
    /\ \E i \in 1..Len(lines_read) : startswith(lines_read[i], DATA)

-----------------------------------------------------------------------------
(* Multi-line data.                                                        *)

RECURSIVE FragmentsFrom(_, _)
\* the trimmed remainders of the data: lines from position k on, in order
FragmentsFrom(ls, k) ==
    IF k > Len(ls) THEN <<>>
    ELSE (IF Len(LineAt(ls, k)) > 0 /\ LineAt(ls, k)[1] = "data:"
          THEN <<strip(Tail(LineAt(ls, k)))>>
          ELSE <<>>) \o FragmentsFrom(ls, k + 1)

\* the fragments of the lines taken since the last empty line
PendingFragments(ls) == FragmentsFrom(ls, BlockStart(ls, Len(ls) + 1))

\* C19: the pending fragments are at every moment the trimmed remainders of
\* the data: lines taken since the last empty line, in the order they arrived;
\* and the empty line that ends an event of a known kind with two or more
\* fragments pending hands over exactly one event, whose data is what
\* json.loads gives for the fragments joined with "\n" between them, or
\* {"message": <that joined text>} when it is no JSON text.
C19_MultiLineDataJoinedInOrder ==
    /\ [](data_lines = PendingFragments(lines_read))
    /\ [][(/\ TakesLine
           /\ TakenLine = <<>>
           /\ event_type.some
           /\ \E kind \in KnownKinds : event_type.v = <<kind>>
           /\ Len(data_lines) >= 2)
          => /\ Len(events') = Len(events) + 1
             /\ SubSeq(events', 1, Len(events)) = events
             /\ LET text == BlockText(lines_read', Len(lines_read'), 1)
                IN  events'[Len(events')].data =
                        IF json_loads(text).ok
                        THEN json_loads(text).val
                        ELSE Dict({<<"message", text>>})]_vars

\* C19 witness: one error event was handed over whose message is the two
\* fragments "line one" and "line two", in that order, with a newline between.
C19_Witness ==
    /\ Len(events) = 1
    /\ events[1].event = "error"
    /\ events[1].data = Dict({<<"message", <<"line one", "\n", "line two">>>>})

-----------------------------------------------------------------------------
(* Statuses outside 2xx.                                                   *)

\* the status is a success status: 2xx
Is2xx(status) == 200 <= status /\ status <= 299

\* C20: a received response whose status is neither 2xx nor 400, 401 or 404
\* makes _request raise APIError itself, and a streamed response whose status
\* is not 2xx is never decoded: no line of it is taken and no event of it is
\* handed over.
C20_Non2xxFailsAsAPIError ==
    /\ (exchange.connects /\ ~Is2xx(exchange.status)
            /\ exchange.status \notin {400, 401, 404})
          => /\ result.kind = "raised"
             /\ result.exc = "APIError"
    /\ (response # NoResponse /\ ~Is2xx(response.status))
          => /\ ~response.open
             /\ gen = "raised"
             /\ lines_read = <<>>
             /\ events = <<>>

-----------------------------------------------------------------------------
(* The decoder as a lazy sequence.                                         *)

\* C21: the decoder takes a line only while it is running, that is after the
\* consumer asked for the next event and before that event is handed over; the
\* step that hands an event over suspends the generator, and while it is
\* suspended no line is taken; whenever the generator is suspended at a yield,
\* the last line taken is the empty line that closed the last event handed
\* over, so the number of lines taken is the position of that empty line.
C21_LinesTakenOnDemand ==
    /\ [][TakesLine => gen = "running"]_vars
    /\ [][events' # events => gen' = "yielded"]_vars
    /\ [][(gen \in {"created", "yielded"}) => UNCHANGED lines_read]_vars
    /\ [](gen = "yielded"
          => /\ Closes(lines_read, Len(lines_read))
             /\ Rank(lines_read, Len(lines_read)) = Len(events))
    /\ [](gen = "created" => lines_read = <<>>)

\* C21 witness: the generator is suspended at the yield of its second event,
\* six lines having been taken.
C21_Witness ==
    /\ gen = "yielded"
    /\ Len(events) = 2
    /\ Len(lines_read) = 6

RECURSIVE AloneRun(_, _)
\* one call of _parse_sse_stream consumed alone on the first k lines of ls:
\* what it holds pending and the events it has handed over
AloneRun(ls, k) ==
    IF k = 0 THEN [et |-> None, dl |-> <<>>, evs |-> <<>>]
    ELSE LET before == AloneRun(ls, k - 1)
             line == rstrip(ls[k], {"\r", "\n"})
         IN  [et |-> NextEventType(line, before.et),
              dl |-> NextDataLines(line, before.dl),
              evs |-> before.evs \o Yielded(line, before.et, before.dl)]

\* C22: with the pulls of two calls of _parse_sse_stream interleaved in any
\* order, each call holds the pending type and data and has handed over the
\* events that a call consumed alone holds and hands over on the lines this
\* call has taken.
C22_SessionsDoNotInterfere ==
    /\ events = AloneRun(lines_read, Len(lines_read)).evs
    /\ event_type = AloneRun(lines_read, Len(lines_read)).et
    /\ data_lines = AloneRun(lines_read, Len(lines_read)).dl
    /\ o_events = AloneRun(o_lines_read, Len(o_lines_read)).evs
    /\ o_event_type = AloneRun(o_lines_read, Len(o_lines_read)).et
    /\ o_data_lines = AloneRun(o_lines_read, Len(o_lines_read)).dl

\* C22 witness: both calls have ended; the first handed over an error event,
\* the second took only a data: line and an empty line and handed over nothing.
C22_Witness ==
    /\ gen = "done"
    /\ o_gen = "done"
    /\ Len(events) = 1
    /\ events[1].event = "error"
    /\ Len(o_lines_read) = 2
    /\ o_lines_read[2] = <<>>
    /\ startswith(o_lines_read[1], DATA)
    /\ o_events = <<>>

-----------------------------------------------------------------------------
(* The pending state of the decoder.                                       *)

\* the type named by the last event: line taken since the last empty line
PendingType(ls) ==
    IF TypePositions(ls, Len(ls) + 1) = {}
    THEN None
    ELSE Some(BlockKind(ls, Len(ls) + 1))

\* C23: every step that takes an empty line leaves the pending type None and
\* the pending data empty, whether or not it hands over an event; so at every
\* moment the pending type and data come from the lines taken since the last
\* empty line only, and an event handed over has the type and the data of
\* the lines taken since the empty line before it: nothing of a type without
\* data, of data without a type or of a dropped unknown-kind event reaches it.
C23_BlankLineClearsPending ==
    /\ [][(TakesLine /\ TakenLine = <<>>)
          => /\ event_type' = None
             /\ data_lines' = <<>>]_vars
    /\ [](event_type = PendingType(lines_read))
    /\ [](data_lines = FragmentsFrom(lines_read, BlockStart(lines_read, Len(lines_read) + 1)))
    /\ [][events' # events
          => LET e == events'[Len(events')]
                 text == join(<<"\n">>, FragmentsFrom(lines_read,
                             BlockStart(lines_read, Len(lines_read) + 1)))
             IN  /\ Some(<<e.event>>) = PendingType(lines_read)
                 /\ e.data = IF json_loads(text).ok
                             THEN json_loads(text).val
                             ELSE Dict({<<"message", text>>})]_vars

\* C23 witness: an empty line ended data that had no event: line, and an
\* event closed after it was handed over.
C23_Witness ==
    /\ events # <<>>
    /\ \E i \in 1..Len(lines_read), j \in 1..Len(lines_read) :
          /\ i \in BlankPositions(lines_read)
          /\ DataPositions(lines_read, i) # {}
          /\ TypePositions(lines_read, i) = {}
          /\ i < j
          /\ Closes(lines_read, j)

\* the empty line at i ends a block with several event: lines
SeveralTypes(ls, i) ==
    /\ Terminates(ls, i)
    /\ Cardinality(TypePositions(ls, i)) >= 2

\* C24: a step that takes an event: line sets the pending type to the trimmed
\* remainder of that line, whatever type was pending, keeps the pending data
\* and hands over nothing; so an event with several event: lines is handed
\* over, or dropped, by the kind its last event: line names, with the data of
\* all its data: lines, those before the last event: line included.
C24_LastEventLineDecides ==
    /\ [][(TakesLine /\ startswith(TakenLine, EVENT))
          => /\ event_type' = Some(strip(Tail(TakenLine)))
             /\ UNCHANGED <<data_lines, events>>
             /\ gen' = "running"]_vars
    /\ [](\A i \in 1..Len(lines_read) :
            SeveralTypes(lines_read, i)
            => IF \E kind \in KnownKinds : BlockKind(lines_read, i) = <<kind>>
               THEN LET e == events[Rank(lines_read, i)]
                        text == BlockText(lines_read, i, 1)
                    IN  /\ <<e.event>> = BlockKind(lines_read, i)
                        /\ e.data = IF json_loads(text).ok
                                    THEN json_loads(text).val
                                    ELSE Dict({<<"message", text>>})
               ELSE i \notin ClosingPositions(lines_read))
    /\ [](Len(events) = Rank(lines_read, Len(lines_read)))

\* C24 witness: an event whose first event: line names the unknown type ping,
\* followed by a data: line and then by the line event: start, was handed over
\* as a start event with that data.
C24_Witness ==
    /\ Len(events) = 1
    /\ events[1].event = "start"
    /\ events[1].data.kv # {}
    /\ Len(lines_read) = 4
    /\ LineAt(lines_read, 1) = <<"event:", " ", "ping">>
    /\ startswith(LineAt(lines_read, 2), DATA)
    /\ LineAt(lines_read, 3) = <<"event:", " ", "start">>

\* the line is not empty and begins with neither event: nor data:
OtherShape(line) ==
    /\ line # <<>>
    /\ ~startswith(line, EVENT)
    /\ ~startswith(line, DATA)

\* the positions of the lines of the block ending at i that have another shape
OtherPositions(ls, i) ==
    {k \in BlockStart(ls, i)..(i - 1) : OtherShape(LineAt(ls, k))}

\* C25: a step that takes a line which, without its trailing CR and LF, is not
\* empty and begins with neither event: nor data: leaves the pending type and
\* the pending data as they are, hands over nothing and leaves the decoder
\* running; an event with such lines among its lines is handed over at its
\* empty line with its type and all its data, as if they were not there.
C25_OtherLinesIgnored ==
    /\ [][(TakesLine /\ OtherShape(TakenLine))
          => /\ UNCHANGED <<event_type, data_lines, events>>
             /\ gen' = "running"]_vars
    /\ [](\A i \in 1..Len(lines_read) :
            (Closes(lines_read, i) /\ OtherPositions(lines_read, i) # {})
            => LET e == events[Rank(lines_read, i)]
                   text == BlockText(lines_read, i, 1)
               IN  /\ Rank(lines_read, i) <= Len(events)
                   /\ <<e.event>> = BlockKind(lines_read, i)
                   /\ e.data = IF json_loads(text).ok
                               THEN json_loads(text).val
                               ELSE Dict({<<"message", text>>}))
    /\ [](Cardinality(ClosingPositions(lines_read)) = Len(events))

\* C25 witness: a start event with a comment line between its event: line and
\* its data: line was handed over with that data.
C25_Witness ==
    /\ Len(events) = 1
    /\ events[1].event = "start"
    /\ events[1].data.kv # {}
    /\ Len(lines_read) = 4
    /\ LineAt(lines_read, 1) = <<"event:", " ", "start">>
    /\ LineAt(lines_read, 2) = <<":", " ", "keepalive">>
    /\ startswith(LineAt(lines_read, 3), DATA)

\* C26: with a consumer that keeps pulling, the decoder on a finite line
\* source ends by returning; at every moment it has handed over at most as
\* many events as it has taken empty lines; and once it has returned no step
\* takes a line, hands over an event or changes its position.
C26_TerminatesAndStaysExhausted ==
    /\ <>(gen = "done")
    /\ [](Len(events) <= Cardinality(BlankPositions(lines_read)))
    /\ [][(gen = "done") => UNCHANGED decoderVars]_vars

\* C26 witness: the decoder has returned after two empty lines, one of which
\* closed an event.
C26_Witness ==
    /\ gen = "done"
    /\ Len(events) = 1
    /\ Cardinality(BlankPositions(lines_read)) = 2

-----------------------------------------------------------------------------
(* The walk on lists that are no forest.                                   *)

\* following parent_id from the i-th Node comes back to that Node
OnCycle(t, i) ==
    /\ t[i].parent_id # NullId
    /\ AtOrBelow(t, t[i].parent_id, t[i].id, Len(t))

-----------------------------------------------------------------------------
(* When a streaming call touches the network.                              *)

\* C28: the step in which a streaming call returns its generator creates no
\* handle, opens no response and raises nothing; while the generator has not
\* been pulled there is no response and no failure of that call; a failure is
\* raised only by the first pull; and closing a generator that was never
\* pulled leaves handle, response and outcome as they were: no request is sent.
C28_StreamCallIsLazy ==
    /\ [][(gen' = "created" /\ gen # "created")
          => /\ UNCHANGED <<_client, handles>>
             /\ response' = NoResponse
             /\ stream_result' = NoResult]_vars
    /\ [](gen = "created"
          => /\ response = NoResponse
             /\ stream_result = NoResult
             /\ lines_read = <<>>
             /\ events = <<>>)
    /\ [][(stream_result'.kind = "raised" /\ stream_result' # stream_result)
          => /\ gen = "created"
             /\ gen' = "raised"]_vars
    /\ [][(response' # NoResponse /\ response = NoResponse) => gen = "created"]_vars
    /\ [][(gen = "created" /\ gen' = "closed")
          => UNCHANGED <<_client, handles, response, stream_result>>]_vars

\* C28 witness: a streaming call was made and its generator closed without a
\* pull; no handle was ever created and there is no response.
C28_Witness ==
    /\ gen = "closed"
    /\ handles = <<>>
    /\ _client = 0
    /\ response = NoResponse
    /\ stream_result = NoResult

-----------------------------------------------------------------------------
(* Concurrent callers and closed handles.                                  *)

\* the handle h is open, is not the client's handle and is not about to be
\* stored as the client's handle
Orphaned(h) ==
    /\ handles[h] = "open"
    /\ h # _client
    /\ \A t \in 1..MaxThreads : ~(threads[t].pc = "assign" /\ threads[t].made = h)

\* C29: with threads calling _get_client in any interleaving, at most one
\* handle is open at any moment, and every handle ever created is the
\* client's handle, is about to be stored as it, or is closed.
C29_NoOrphanedHandle ==
    /\ Cardinality({h \in 1..Len(handles) : handles[h] = "open"}) <= 1
    /\ \A h \in 1..Len(handles) : ~Orphaned(h)

\* C30: close() on a client with a handle closes that handle and clears
\* _client, and close() on a client without one changes nothing; the handle a
\* client holds is open; a request made when _client is None gets a newly
\* built open handle; and every line a stream takes is read through a handle
\* that is still open.
C30_NoUseAfterClose ==
    /\ [][(Close /\ _client # 0)
          => /\ handles' = [handles EXCEPT ![_client] = "closed"]
             /\ _client' = 0]_vars
    /\ [][(Close /\ _client = 0) => UNCHANGED <<_client, handles>>]_vars
    /\ [](_client # 0 => handles[_client] = "open")
    /\ [][((Request \/ StreamOpen) /\ _client = 0)
          => /\ _client' = Len(handles) + 1
             /\ handles' = Append(handles, "open")]_vars
    /\ [][TakesLine => handles[response.via] = "open"]_vars



















====
